---- MODULE Spec2Model ----
(***************************************************************************)
(* Model of build_manpages/build_manpages.py (argparse-manpage):           *)
(*   parse_manpages_spec, get_pyproject_settings,                          *)
(*   build_manpages.finalize_options, build_manpages.run and               *)
(*   _build_manpages_install.install_manual_pages.                         *)
(*                                                                         *)
(* A Python string is modelled as a sequence of atoms.  An atom is either  *)
(* a separator character ("\n", ":", "=", "/") or an indivisible block of  *)
(* ordinary characters ("function", "a.1", ...).  No concatenation of      *)
(* atoms used below spells another atom, so string equality is equality    *)
(* of atom sequences and str.split / str.strip / os.path.basename act on   *)
(* the separators exactly as they do on the characters.                    *)
(***************************************************************************)
EXTENDS Integers, Sequences, FiniteSets, TLC

VARIABLES
    decl,           \* the declarations the input text was written from
    string,         \* argument of parse_manpages_spec
    manpages,       \* build_manpages.manpages (the --manpages override)
    pyproject,      \* state of the file pyproject.toml
    setup_cfg,      \* state of the file setup.cfg
    distribution,   \* metadata offered by self.distribution
    manpages_data,  \* build_manpages.manpages_data / the parsed mapping
    idx,            \* position of the loop over manpages_data.items()
    log,            \* calls made to print and to the collaborators, in order
    files,          \* filesystem: pages written, mandir, pages copied
    err,            \* the exception that left the operation, if any
    pc              \* position of the operation

vars == <<decl, string, manpages, pyproject, setup_cfg, distribution,
          manpages_data, idx, log, files, err, pc>>

----------------------------------------------------------------------------
(* Strings *)

NL == "\n"

Whitespace == {NL, " "}

\* str.split(sep): the pieces between the occurrences of sep.
RECURSIVE split(_, _)
split(s, sep) ==
    IF \A i \in 1..Len(s) : s[i] # sep
    THEN <<s>>
    ELSE LET i == CHOOSE j \in 1..Len(s) :
                      s[j] = sep /\ \A k \in 1..(j - 1) : s[k] # sep
         IN  <<SubSeq(s, 1, i - 1)>> \o split(SubSeq(s, i + 1, Len(s)), sep)

\* str.strip(): leading and trailing whitespace removed.
RECURSIVE strip(_)
strip(s) ==
    IF s = <<>> THEN s
    ELSE IF Head(s) \in Whitespace THEN strip(Tail(s))
    ELSE IF s[Len(s)] \in Whitespace THEN strip(SubSeq(s, 1, Len(s) - 1))
    ELSE s

\* "\n".join(list)
RECURSIVE join(_)
join(list) ==
    IF list = <<>> THEN <<>>
    ELSE IF Len(list) = 1 THEN list[1]
    ELSE list[1] \o <<NL>> \o join(Tail(list))

\* os.path.basename(p): what follows the last "/".
basename(p) ==
    LET parts == split(p, "/") IN parts[Len(parts)]

----------------------------------------------------------------------------
(* Outcomes of a call: a value returned, or an exception raised *)

NoArg == <<>>

Return(v) == [exc |-> "none", msg |-> "", arg |-> NoArg, value |-> v]

Raise(e, m, a) == [exc |-> e, msg |-> m, arg |-> a, value |-> <<>>]

UnknownOptionMsg == "Unknown manpage configuration option: {}"

UnpackMsg == "values to unpack"

----------------------------------------------------------------------------
(* parse_manpages_spec *)

\* argparse_manpage.manpage.MANPAGE_DATA_ATTRS, imported and not defined here:
\* the manual-page metadata names its documentation gives, with "authors",
\* which the parser excludes by name.
MANPAGE_DATA_ATTRS ==
    {"authors", "prog", "title", "section", "description",
     "long_description", "version", "date", "manfile"}

EmptyDict == [k \in {} |-> <<>>]

\* d[k] = v
SetItem(d, k, v) == (k :> v) @@ d

\* oname == 'function' or oname == 'object' branch
SetObjNoAssert(manpagedata, oname, ovalue) ==
    Return(SetItem(SetItem(manpagedata, "objtype", oname), "objname", ovalue))

SetObj(manpagedata, oname, ovalue) ==
    IF "objtype" \in DOMAIN manpagedata
    THEN Raise("AssertionError", "", NoArg)
    ELSE Return(SetItem(SetItem(manpagedata, "objtype", oname),
                        "objname", ovalue))

\* oname == 'pyfile' or oname == 'module' branch
SetImport(manpagedata, oname, ovalue) ==
    IF "import_type" \in DOMAIN manpagedata
    THEN Raise("AssertionError", "", NoArg)
    ELSE LET d == SetItem(SetItem(manpagedata, "import_type", oname),
                          "import_from", ovalue)
         IN  IF oname = <<"pyfile">>
             THEN Return(SetItem(d, "prog", basename(ovalue)))
             ELSE Return(d)

\* oname == 'format' branch
SetFormat(manpagedata, ovalue) ==
    IF "format" \in DOMAIN manpagedata
    THEN Raise("AssertionError", "", NoArg)
    ELSE Return(SetItem(manpagedata, "format", ovalue))

\* oname == 'author' branch: setdefault("authors", []).append(ovalue)
AddAuthor(manpagedata, ovalue) ==
    LET old == IF "authors" \in DOMAIN manpagedata
               THEN manpagedata["authors"] ELSE <<>>
    IN  Return(SetItem(manpagedata, "authors", Append(old, ovalue)))

\* oname in MANPAGE_DATA_ATTRS and oname != "authors" branch
SetAttr(manpagedata, oname, ovalue) ==
    IF oname[1] \in DOMAIN manpagedata
    THEN Raise("AssertionError", "", NoArg)
    ELSE Return(SetItem(manpagedata, oname[1], ovalue))

\* the final else branch
UnknownOptionIgnored(manpagedata, oname) == Return(manpagedata)

UnknownOption(manpagedata, oname) ==
    Raise("ValueError", UnknownOptionMsg, oname)

\* One pass of the inner loop body for an option that is not the output file.
ParseOption(manpagedata, option) ==
    LET parts == split(option, "=") IN
    IF Len(parts) # 2
    THEN Raise("ValueError", UnpackMsg, NoArg)
    ELSE LET oname  == parts[1]
             ovalue == parts[2]
         IN  IF oname = <<"function">> \/ oname = <<"object">>
             THEN SetObj(manpagedata, oname, ovalue)
             ELSE IF oname = <<"pyfile">> \/ oname = <<"module">>
             THEN SetImport(manpagedata, oname, ovalue)
             ELSE IF oname = <<"format">>
             THEN SetFormat(manpagedata, ovalue)
             ELSE IF oname = <<"author">>
             THEN AddAuthor(manpagedata, ovalue)
             ELSE IF /\ Len(oname) = 1
                     /\ oname[1] \in MANPAGE_DATA_ATTRS
                     /\ oname[1] # "authors"
             THEN SetAttr(manpagedata, oname, ovalue)
             ELSE UnknownOption(manpagedata, oname)

\* The inner loop over spec.split(':') after the first token.
RECURSIVE ParseOptions(_, _)
ParseOptions(manpagedata, options) ==
    IF options = <<>> THEN Return(manpagedata)
    ELSE LET r == ParseOption(manpagedata, Head(options))
         IN  IF r.exc # "none" THEN r ELSE ParseOptions(r.value, Tail(options))

\* manpages_data[outputfile] = manpagedata, on an insertion-ordered dict:
\* an existing key keeps its place and gets the new value.
StoreRecordMerged(data, outputfile, manpagedata) ==
    IF \E i \in 1..Len(data) : data[i].key = outputfile
    THEN [i \in 1..Len(data) |->
            IF data[i].key = outputfile
            THEN [key |-> outputfile, data |-> manpagedata @@ data[i].data]
            ELSE data[i]]
    ELSE Append(data, [key |-> outputfile, data |-> manpagedata])

StoreRecord(data, outputfile, manpagedata) ==
    IF \E i \in 1..Len(data) : data[i].key = outputfile
    THEN [i \in 1..Len(data) |->
            IF data[i].key = outputfile
            THEN [key |-> outputfile, data |-> manpagedata]
            ELSE data[i]]
    ELSE Append(data, [key |-> outputfile, data |-> manpagedata])

\* The outer loop over string.strip().split('\n').
RECURSIVE ParseSpecs(_, _)
ParseSpecs(data, specs) ==
    IF specs = <<>> THEN Return(data)
    ELSE LET options == split(Head(specs), ":")
             outputfile == options[1]
             r == ParseOptions(EmptyDict, Tail(options))
         IN  IF r.exc # "none" THEN r
             ELSE ParseSpecs(StoreRecord(data, outputfile, r.value),
                             Tail(specs))

parse_manpages_spec(s) == ParseSpecs(<<>>, split(strip(s), NL))

----------------------------------------------------------------------------
(* Input texts of parse_manpages_spec *)

MaxLines == 3

MaxOptions == 3

Tok(name, value) == <<name, "=">> \o value

OptionTokens ==
    { Tok("function", <<"main">>),
      Tok("object", <<"parser">>),
      Tok("pyfile", <<"bin", "/", "tool">>),
      Tok("module", <<"foo">>),
      Tok("format", <<"old">>),
      Tok("author", <<"X">>),
      Tok("description", <<"a">>),
      Tok("description", <<"a", "=", "b">>),
      Tok("prog", <<"explicit">>),
      Tok("manfile", <<"page">>),
      Tok("bogus", <<"1">>),
      Tok("bogus", <<"1", "=", "2">>),
      <<"nov">> }

FileNames == {<<"a.1">>, <<"b.1">>}

BlankLine == [blank |-> TRUE, file |-> <<>>, opts |-> <<>>]

DeclLine(f, o) == [blank |-> FALSE, file |-> f, opts |-> o]

SeqsUpTo(S, n) == UNION {[1..k -> S] : k \in 0..n}

\* One declaration with up to MaxOptions options of any kind.
SingleLineDecls ==
    {<<DeclLine(<<"a.1">>, o)>> : o \in SeqsUpTo(OptionTokens, MaxOptions)}

ShortOptions ==
    { <<>>,
      <<Tok("function", <<"main">>)>>,
      <<Tok("module", <<"foo">>)>>,
      <<Tok("function", <<"main">>), Tok("module", <<"foo">>)>>,
      <<Tok("bogus", <<"1">>)>> }

\* Up to MaxLines lines, blank or declaring one of two files.
MultiLineDecls ==
    SeqsUpTo({BlankLine} \cup {DeclLine(f, o) : f \in FileNames,
                                               o \in ShortOptions},
             MaxLines)

RECURSIVE JoinOptions(_)
JoinOptions(opts) ==
    IF opts = <<>> THEN <<>>
    ELSE <<":">> \o Head(opts) \o JoinOptions(Tail(opts))

LineText(l) == IF l.blank THEN <<>> ELSE l.file \o JoinOptions(l.opts)

TextOf(d) == join([i \in 1..Len(d) |-> LineText(d[i])])

----------------------------------------------------------------------------
(* State shared by the specifications *)

NoErr == [exc |-> "none", msg |-> "", arg |-> NoArg]

ErrOf(r) == [exc |-> r.exc, msg |-> r.msg, arg |-> r.arg]

NoFiles == [written |-> {}, mandir |-> FALSE, copied |-> {}]

\* Python values held by variables: None, or a str.
PyNone == [t |-> "None", v |-> <<>>]

PyStr(s) == [t |-> "str", v |-> s]

\* bool(x) for None and str
Truthy(x) == x.t = "str" /\ x.v # <<>>

NoFile == [kind |-> "missing"]

----------------
(* Specification SpecParse: parse_manpages_spec applied to an input text *)

InitParse ==
    /\ decl \in SingleLineDecls \cup MultiLineDecls
    /\ string = TextOf(decl)
    /\ manpages = PyNone
    /\ pyproject = NoFile
    /\ setup_cfg = NoFile
    /\ distribution = EmptyDict
    /\ manpages_data = <<>>
    /\ idx = 0
    /\ log = <<>>
    /\ files = NoFiles
    /\ err = NoErr
    /\ pc = "start"

Parse ==
    /\ pc = "start"
    /\ LET r == parse_manpages_spec(string) IN
         /\ manpages_data' = r.value
         /\ err' = ErrOf(r)
         /\ pc' = IF r.exc = "none" THEN "returned" ELSE "raised"
    /\ UNCHANGED <<decl, string, manpages, pyproject, setup_cfg,
                   distribution, idx, log, files>>

NextParse == Parse

SpecParse == InitParse /\ [][NextParse]_vars

----------------------------------------------------------------------------
(* Reading the declarations: what a claim about the grammar refers to *)

Finished == pc \in {"returned", "raised"}

HasEq(tok) == \E i \in 1..Len(tok) : tok[i] = "="

FirstEq(tok) == CHOOSE i \in 1..Len(tok) :
                    tok[i] = "=" /\ \A k \in 1..(i - 1) : tok[k] # "="

\* The name and the value of an option that holds an '=': the text before
\* the first '=' and everything after it.
NameOf(tok) == SubSeq(tok, 1, FirstEq(tok) - 1)

ValueOf(tok) == SubSeq(tok, FirstEq(tok) + 1, Len(tok))

OneEq(tok) == Cardinality({i \in 1..Len(tok) : tok[i] = "="}) = 1

Declarations == {l \in 1..Len(decl) : ~decl[l].blank}

\* Every option of the text, as (line, position in the line).
OptionPlaces ==
    UNION {{<<l, j>> : j \in 1..Len(decl[l].opts)} : l \in 1..Len(decl)}

OptionAt(p) == decl[p[1]].opts[p[2]]

\* The text up to, and without, the option at place p.
TextBefore(p) ==
    TextOf([i \in 1..p[1] |->
              IF i < p[1] THEN decl[i]
              ELSE DeclLine(decl[i].file,
                            SubSeq(decl[i].opts, 1, p[2] - 1))])

\* The exclusive field an option sets.
FieldGroup(name) ==
    IF name \in {<<"function">>, <<"object">>} THEN "objtype"
    ELSE IF name \in {<<"pyfile">>, <<"module">>} THEN "import_type"
    ELSE IF name = <<"format">> THEN "format"
    ELSE IF Len(name) = 1 /\ name[1] \in MANPAGE_DATA_ATTRS \ {"authors"}
    THEN name[1]
    ELSE "none"

\* The option at p sets an exclusive field that an earlier option of the
\* same line has set.
SetsAgain(p) ==
    /\ HasEq(OptionAt(p))
    /\ FieldGroup(NameOf(OptionAt(p))) # "none"
    /\ \E i \in 1..(p[2] - 1) :
          /\ HasEq(decl[p[1]].opts[i])
          /\ FieldGroup(NameOf(decl[p[1]].opts[i]))
               = FieldGroup(NameOf(OptionAt(p)))

RecognisedNames ==
    {<<"function">>, <<"object">>, <<"pyfile">>, <<"module">>,
     <<"format">>, <<"author">>} \cup {<<a>> : a \in MANPAGE_DATA_ATTRS}

Unrecognised(p) ==
    /\ HasEq(OptionAt(p))
    /\ NameOf(OptionAt(p)) \notin RecognisedNames

Records(data, f) == {i \in 1..Len(data) : data[i].key = f}

LastLine(f) == CHOOSE l \in Declarations :
                  /\ decl[l].file = f
                  /\ \A m \in Declarations : decl[m].file = f => m <= l

----------------------------------------------------------------------------
(* Claims about parse_manpages_spec, checked under SpecParse *)

\* C1: for every accepted text, each declared output filename is a key of
\* the returned mapping exactly once, and its record is exactly the record
\* of the last line declaring that filename (no field of an earlier line
\* with the same filename survives).
C1_LastLineWins ==
    pc = "returned" =>
        \A l \in Declarations :
            /\ Cardinality(Records(manpages_data, decl[l].file)) = 1
            /\ \A i \in Records(manpages_data, decl[l].file) :
                  manpages_data[i].data =
                    parse_manpages_spec(
                        LineText(decl[LastLine(decl[l].file)])).value[1].data

C1_Witness ==
    /\ pc = "returned"
    /\ Len(decl) = 3
    /\ decl[1].file = <<"a.1">> /\ decl[3].file = <<"a.1">>
    /\ decl[2].file = <<"b.1">>
    /\ decl[1].opts = <<Tok("function", <<"main">>)>>
    /\ decl[3].opts = <<Tok("module", <<"foo">>)>>
    /\ Len(manpages_data) = 2
    /\ DOMAIN manpages_data[1].data = {"import_type", "import_from"}

\* C4: a second setting of an exclusive field within one line fails the
\* parse and no mapping is returned; when everything before that option is
\* accepted the parse fails at that very option, by the assertion guarding
\* the field when the option splits into a name and a value.
C4_ExclusiveOnce ==
    Finished =>
        \A p \in OptionPlaces :
            SetsAgain(p) =>
                /\ pc = "raised"
                /\ manpages_data = <<>>
                /\ (parse_manpages_spec(TextBefore(p)).exc = "none"
                       /\ OneEq(OptionAt(p)))
                      => err.exc = "AssertionError"

C4_Witness ==
    /\ pc = "raised"
    /\ err.exc = "AssertionError"
    /\ Len(decl) = 1
    /\ decl[1].opts = <<Tok("function", <<"main">>),
                        Tok("module", <<"foo">>),
                        Tok("object", <<"parser">>)>>

C6_Claim ==
    (Finished /\ Len(decl) = 1) =>
        \A j \in 1..Len(decl[1].opts) :
            LET o == decl[1].opts IN
            (OneEq(o[j]) /\ NameOf(o[j]) = <<"pyfile">>) =>
                /\ (pc = "returned" /\ \A k \in 1..Len(o) :
                                          ~HasEq(o[k])
                                          \/ NameOf(o[k]) # <<"prog">>)
                      => manpages_data[1].data["prog"]
                            = basename(ValueOf(o[j]))
                /\ \A k \in 1..Len(o) :
                      (Len(o) = 2 /\ OneEq(o[k])
                          /\ NameOf(o[k]) = <<"prog">>)
                      => /\ pc = "returned"
                         /\ manpages_data[1].data["prog"] = ValueOf(o[k])

\* C7: blank lines are skipped wherever they occur: the text parses to the
\* outcome of the text with its blank lines removed.
C7_Claim ==
    Finished =>
        LET r == parse_manpages_spec(
                    TextOf(SelectSeq(decl, LAMBDA l : ~l.blank)))
        IN  /\ manpages_data = r.value
            /\ err = ErrOf(r)

\* C8: an option is split on its first '=' only: a value holding '=' is
\* accepted as it is, and only an option with no '=' fails on the split.
C8_Claim ==
    Finished =>
        /\ err.msg = UnpackMsg
              => \E p \in OptionPlaces : ~HasEq(OptionAt(p))
        /\ \A p \in OptionPlaces :
              (/\ Len(decl) = 1 /\ Len(decl[1].opts) = 1
               /\ HasEq(OptionAt(p))
               /\ NameOf(OptionAt(p)) = <<"description">>)
              => /\ pc = "returned"
                 /\ manpages_data[1].data["description"]
                       = ValueOf(OptionAt(p))

----------------------------------------------------------------------------
(* get_pyproject_settings *)

DEFAULT_CMD_NAME == "build_manpages"

\* A parsed TOML value: a table, a string or a list of strings.
Table(f) == [t |-> "table", v |-> f]

TomlStr(s) == [t |-> "str", v |-> s]

TomlList(l) == [t |-> "list", v |-> l]

\* obj[key]: KeyError for a table without the key; TypeError for a string
\* or list subscripted by a string.
GetItem(obj, key) ==
    IF obj.t = "table"
    THEN IF key \in DOMAIN obj.v
         THEN Return(obj.v[key])
         ELSE Raise("KeyError", "", <<key>>)
    ELSE Raise("TypeError", "", <<key>>)

\* content["tool"][DEFAULT_CMD_NAME]["manpages"]
Lookup(content) ==
    LET a == GetItem(content, "tool") IN
    IF a.exc # "none" THEN a
    ELSE LET b == GetItem(a.value, DEFAULT_CMD_NAME) IN
         IF b.exc # "none" THEN b
         ELSE GetItem(b.value, "manpages")

\* open("pyproject.toml") raises when there is no such file and nothing
\* catches it; a document that does not parse gives None.
OpenAndLoad(file) ==
    IF file.kind = "missing" THEN Raise("FileNotFoundError", "", NoArg)
    ELSE IF file.kind = "invalid" THEN Raise("TOMLDecodeError", "", NoArg)
    ELSE Return(file.content)

get_pyproject_settings(file) ==
    LET c == OpenAndLoad(file) IN
    IF c.exc = "TOMLDecodeError" THEN Return(PyNone)
    ELSE IF c.exc # "none" THEN c
    ELSE LET r == Lookup(c.value) IN
         IF r.exc = "KeyError" THEN Return(PyNone)
         ELSE IF r.exc # "none" THEN r
         ELSE IF r.value.t = "list" THEN Return(PyStr(join(r.value.v)))
         ELSE Return(PyStr(r.value.v))

----------------------------------------------------------------------------
(* build_manpages.finalize_options *)

RequiredMsg == "'manpages' option is required"

\* argparse_manpage.manpage.get_manpage_data_from_distribution: a field the
\* distribution offers is filled in only where the record has none.
get_manpage_data_from_distribution(dist, data) == data @@ dist

CompleteAll(dist, data) ==
    [i \in 1..Len(data) |->
        [key |-> data[i].key,
         data |-> get_manpage_data_from_distribution(dist, data[i].data)]]

\* manpages = self.manpages or get_pyproject_settings()
ChosenSpec(override, file) ==
    IF Truthy(override) THEN Return(override)
    ELSE get_pyproject_settings(file)

\* The outcome of finalize_options: the completed mapping, or the exception.
\* text is the argument parse_manpages_spec was called with, if it was.
finalize_options(override, file, dist) ==
    LET m == ChosenSpec(override, file) IN
    IF m.exc # "none"
    THEN [out |-> m, text |-> PyNone]
    ELSE IF ~Truthy(m.value)
    THEN [out |-> Raise("DistutilsOptionError", RequiredMsg, NoArg),
          text |-> PyNone]
    ELSE LET r == parse_manpages_spec(m.value.v) IN
         IF r.exc # "none"
         THEN [out |-> r, text |-> m.value]
         ELSE [out |-> Return(CompleteAll(dist, r.value)), text |-> m.value]

Finalize ==
    /\ pc = "new"
    /\ LET f == finalize_options(manpages, pyproject, distribution) IN
         /\ manpages_data' = f.out.value
         /\ err' = ErrOf(f.out)
         /\ string' = f.text.v
         /\ idx' = 1
         /\ pc' = IF f.out.exc = "none" THEN "finalized" ELSE "raised"
    /\ UNCHANGED <<decl, manpages, pyproject, setup_cfg, distribution,
                   log, files>>

----------------------------------------------------------------------------
(* build_manpages.run: one action for each way an iteration of the loop   *)
(* over manpages_data.items() can go                                       *)

UnknownFormatMsg == "Unknown format: {}"

\* d.get(k, default)
Get(d, k, default) == IF k \in DOMAIN d THEN d[k] ELSE default

Page == manpages_data[idx].key

Data == manpages_data[idx].data

InLoop == pc = "run" /\ idx <= Len(manpages_data)

\* data.get('manfile') is truthy
Prewritten(data) == Get(data, "manfile", <<>>) # <<>>

\* data.get('format', 'pretty')
FormatOf(data) == Get(data, "format", <<"pretty">>)

\* The keys subscripted to build the arguments of get_parser.
ParserKeys == {"import_type", "import_from", "objname", "objtype"}

Call(op, page, arg) == [op |-> op, page |-> page, arg |-> arg]

Wrote(page) == [files EXCEPT !.written = @ \cup {page}]

\* run() is entered once finalize_options has returned.
RunStart ==
    /\ pc = "finalized"
    /\ pc' = "run"
    /\ UNCHANGED <<decl, string, manpages, pyproject, setup_cfg,
                   distribution, manpages_data, idx, log, files, err>>

\* if data.get('manfile'): print; return
RunPrewrittenContinue ==
    /\ InLoop
    /\ Prewritten(Data)
    /\ log' = Append(log, Call("print", Page, <<"using pre-written">>))
    /\ idx' = idx + 1
    /\ UNCHANGED <<decl, string, manpages, pyproject, setup_cfg,
                   distribution, manpages_data, files, err, pc>>

RunPrewritten ==
    /\ InLoop
    /\ Prewritten(Data)
    /\ log' = Append(log, Call("print", Page, <<"using pre-written">>))
    /\ pc' = "done"
    /\ UNCHANGED <<decl, string, manpages, pyproject, setup_cfg,
                   distribution, manpages_data, idx, files, err>>

\* print "generating"; data['import_type'] ... raises KeyError
RunKeyError ==
    /\ InLoop
    /\ ~Prewritten(Data)
    /\ ~(ParserKeys \subseteq DOMAIN Data)
    /\ log' = Append(log, Call("print", Page, <<"generating">>))
    /\ err' = [exc |-> "KeyError", msg |-> "", arg |-> NoArg]
    /\ pc' = "raised"
    /\ UNCHANGED <<decl, string, manpages, pyproject, setup_cfg,
                   distribution, manpages_data, idx, files>>

\* print "generating"; get_parser(...) raises
RunParserFails ==
    /\ InLoop
    /\ ~Prewritten(Data)
    /\ ParserKeys \subseteq DOMAIN Data
    /\ log' = log \o <<Call("print", Page, <<"generating">>),
                       Call("get_parser", Page, <<"raised">>)>>
    /\ err' = [exc |-> "ImportError", msg |-> "", arg |-> NoArg]
    /\ pc' = "raised"
    /\ UNCHANGED <<decl, string, manpages, pyproject, setup_cfg,
                   distribution, manpages_data, idx, files>>

\* format in ('pretty', 'single-commands-section'): Manpage, write_to_filename
RunPretty ==
    /\ InLoop
    /\ ~Prewritten(Data)
    /\ ParserKeys \subseteq DOMAIN Data
    /\ FormatOf(Data) \in {<<"pretty">>, <<"single-commands-section">>}
    /\ \E ok \in BOOLEAN :
          /\ log' = log \o <<Call("print", Page, <<"generating">>),
                             Call("get_parser", Page, <<"returned">>),
                             Call("Manpage", Page, FormatOf(Data)),
                             Call("write_to_filename", Page,
                                  IF ok THEN <<"returned">>
                                  ELSE <<"raised">>)>>
          /\ IF ok
             THEN /\ files' = Wrote(Page)
                  /\ idx' = idx + 1
                  /\ UNCHANGED <<err, pc>>
             ELSE /\ err' = [exc |-> "OSError", msg |-> "", arg |-> NoArg]
                  /\ pc' = "raised"
                  /\ UNCHANGED <<files, idx>>
    /\ UNCHANGED <<decl, string, manpages, pyproject, setup_cfg,
                   distribution, manpages_data>>

\* format == 'old': ManPageWriter(parser, data).write(page)
RunOld ==
    /\ InLoop
    /\ ~Prewritten(Data)
    /\ ParserKeys \subseteq DOMAIN Data
    /\ FormatOf(Data) = <<"old">>
    /\ \E ok \in BOOLEAN :
          /\ log' = log \o <<Call("print", Page, <<"generating">>),
                             Call("get_parser", Page, <<"returned">>),
                             Call("ManPageWriter.write", Page,
                                  IF ok THEN <<"returned">>
                                  ELSE <<"raised">>)>>
          /\ IF ok
             THEN /\ files' = Wrote(Page)
                  /\ idx' = idx + 1
                  /\ UNCHANGED <<err, pc>>
             ELSE /\ err' = [exc |-> "OSError", msg |-> "", arg |-> NoArg]
                  /\ pc' = "raised"
                  /\ UNCHANGED <<files, idx>>
    /\ UNCHANGED <<decl, string, manpages, pyproject, setup_cfg,
                   distribution, manpages_data>>

\* else: raise ValueError("Unknown format: {}".format(format))
RunUnknownFormatContinue ==
    /\ InLoop
    /\ ~Prewritten(Data)
    /\ ParserKeys \subseteq DOMAIN Data
    /\ FormatOf(Data) # <<"old">>
    /\ FormatOf(Data) \notin {<<"pretty">>, <<"single-commands-section">>}
    /\ log' = log \o <<Call("print", Page, <<"generating">>),
                       Call("get_parser", Page, <<"returned">>)>>
    /\ idx' = idx + 1
    /\ UNCHANGED <<decl, string, manpages, pyproject, setup_cfg,
                   distribution, manpages_data, files, err, pc>>

RunUnknownFormat ==
    /\ InLoop
    /\ ~Prewritten(Data)
    /\ ParserKeys \subseteq DOMAIN Data
    /\ FormatOf(Data) # <<"old">>
    /\ FormatOf(Data) \notin {<<"pretty">>, <<"single-commands-section">>}
    /\ log' = log \o <<Call("print", Page, <<"generating">>),
                       Call("get_parser", Page, <<"returned">>)>>
    /\ err' = [exc |-> "ValueError", msg |-> UnknownFormatMsg,
               arg |-> FormatOf(Data)]
    /\ pc' = "raised"
    /\ UNCHANGED <<decl, string, manpages, pyproject, setup_cfg,
                   distribution, manpages_data, idx, files>>

\* the loop is exhausted
RunEnd ==
    /\ pc = "run"
    /\ idx > Len(manpages_data)
    /\ pc' = "done"
    /\ UNCHANGED <<decl, string, manpages, pyproject, setup_cfg,
                   distribution, manpages_data, idx, log, files, err>>

----------------------------------------------------------------------------
(* Specification SpecBuild: the build_manpages command, finalize_options   *)
(* followed by run                                                         *)

MaxRecords == 3

PageNames == <<"a.1", "b.1", "c.1", "d.1">>

Importing == <<Tok("module", <<"foo">>), Tok("function", <<"main">>)>>

\* The options of one declared page.
RunOptionLists ==
    { Importing,
      Importing \o <<Tok("format", <<"single-commands-section">>)>>,
      Importing \o <<Tok("format", <<"old">>)>>,
      Importing \o <<Tok("format", <<"weird">>)>>,
      Importing \o <<Tok("manfile", <<"page">>)>>,
      Importing \o <<Tok("manfile", <<>>)>>,
      Importing \o <<Tok("format", <<"weird">>), Tok("manfile", <<"page">>)>>,
      <<Tok("function", <<"main">>)>> }

\* The --manpages override: up to MaxRecords declarations of distinct pages.
BuildDecls ==
    UNION { { [i \in 1..k |-> DeclLine(<<PageNames[i]>>, o[i])] :
                o \in [1..k -> RunOptionLists] } :
            k \in 0..(IF MaxRecords < Len(PageNames)
                      THEN MaxRecords ELSE Len(PageNames)) }

ProjectLines ==
    << <<"x.1">> \o JoinOptions(Importing),
       <<"y.1">> \o JoinOptions(Importing \o <<Tok("format", <<"old">>)>>) >>

TomlFile(content) == [kind |-> "toml", content |-> content]

ToolTable(v) == Table([tool |-> v])

CmdTable(v) == ToolTable(Table([build_manpages |-> v]))

\* pyproject.toml: missing, not TOML, or a document.
ProjectFiles ==
    << NoFile,
      [kind |-> "invalid"],
      TomlFile(Table(EmptyDict)),
      TomlFile(ToolTable(Table(EmptyDict))),
      TomlFile(ToolTable(TomlStr(<<"x">>))),
      TomlFile(CmdTable(Table(EmptyDict))),
      TomlFile(CmdTable(Table([manpages |-> TomlStr(<<>>)]))),
      TomlFile(CmdTable(Table([manpages |-> TomlList(<<>>)]))),
      TomlFile(CmdTable(Table([manpages |-> TomlStr(ProjectLines[1])]))),
      TomlFile(CmdTable(Table([manpages |-> TomlStr(join(ProjectLines))]))),
      TomlFile(CmdTable(Table([manpages |-> TomlList(ProjectLines)]))) >>

Distributions == <<EmptyDict, [prog |-> <<"dist">>]>>

InitBuild ==
    /\ decl \in BuildDecls
    /\ \/ /\ manpages = PyStr(TextOf(decl))
          /\ \E i \in DOMAIN ProjectFiles :
                /\ pyproject = ProjectFiles[i]
                /\ decl # <<>> => i \in {1, Len(ProjectFiles)}
       \/ /\ decl = <<>> /\ manpages = PyNone
          /\ \E i \in DOMAIN ProjectFiles : pyproject = ProjectFiles[i]
    /\ \E i \in DOMAIN Distributions : distribution = Distributions[i]
    /\ setup_cfg = NoFile
    /\ string = <<>>
    /\ manpages_data = <<>>
    /\ idx = 0
    /\ log = <<>>
    /\ files = NoFiles
    /\ err = NoErr
    /\ pc = "new"

NextBuild ==
    \/ Finalize
    \/ RunStart
    \/ RunPrewritten
    \/ RunKeyError
    \/ RunParserFails
    \/ RunPretty
    \/ RunOld
    \/ RunUnknownFormat
    \/ RunEnd

SpecBuild == InitBuild /\ [][NextBuild]_vars

----------------------------------------------------------------------------
(* Claims about build_manpages, checked under SpecBuild *)

IndexOf(page) == CHOOSE i \in 1..Len(manpages_data) :
                    manpages_data[i].key = page

KeysBefore(i) == {manpages_data[k].key : k \in 1..(i - 1)}

PrewrittenNotice(e) == e.op = "print" /\ e.arg = <<"using pre-written">>

GeneratingNotice(e) == e.op = "print" /\ e.arg = <<"generating">>

\* C2: records are processed in mapping order; no parser-resolution, render
\* or write collaborator is called for a record whose manfile is truthy;
\* the first such record gets the 'using pre-written' notice and run returns
\* there, so the pages generated are exactly the records before it.
C2_PrewrittenStops ==
    /\ \A m, n \in 1..Len(log) :
          m < n => IndexOf(log[m].page) <= IndexOf(log[n].page)
    /\ \A n \in 1..Len(log) :
          log[n].op # "print"
             => ~Prewritten(manpages_data[IndexOf(log[n].page)].data)
    /\ \A n \in 1..Len(log) :
          PrewrittenNotice(log[n]) =>
             LET i == IndexOf(log[n].page) IN
             /\ n = Len(log)
             /\ pc = "done"
             /\ Prewritten(manpages_data[i].data)
             /\ \A k \in 1..(i - 1) : ~Prewritten(manpages_data[k].data)
             /\ files.written = KeysBefore(i)
             /\ {log[m].page : m \in {j \in 1..Len(log) :
                                        GeneratingNotice(log[j])}}
                   = KeysBefore(i)

C2_Witness ==
    /\ pc = "done"
    /\ Len(manpages_data) = 3
    /\ Prewritten(manpages_data[2].data)
    /\ ~Prewritten(manpages_data[3].data)
    /\ ParserKeys \subseteq DOMAIN manpages_data[3].data
    /\ PrewrittenNotice(log[Len(log)])
    /\ log[Len(log)].page = manpages_data[2].key
    /\ files.written = {manpages_data[1].key}

KnownFormats == {<<"pretty">>, <<"single-commands-section">>, <<"old">>}

\* The format of record i was looked at: its parser had been resolved.
FormatReached(i) ==
    \E n \in 1..Len(log) :
        log[n] = Call("get_parser", manpages_data[i].key, <<"returned">>)

\* C9: a record whose format is none of pretty, single-commands-section and
\* old fails run with the unknown-format error naming that value; the
\* files of the earlier records stay written, nothing is rendered or
\* written for the failing record and nothing at all happens for a later one.
C9_UnknownFormatAborts ==
    \A i \in 1..Len(manpages_data) :
        (FormatReached(i) /\ FormatOf(manpages_data[i].data) \notin KnownFormats)
        => /\ pc = "raised"
           /\ err = [exc |-> "ValueError", msg |-> UnknownFormatMsg,
                     arg |-> FormatOf(manpages_data[i].data)]
           /\ idx = i
           /\ files.written = KeysBefore(i)
           /\ \A n \in 1..Len(log) :
                 /\ IndexOf(log[n].page) <= i
                 /\ log[n].page = manpages_data[i].key
                       => log[n].op \in {"print", "get_parser"}

C9_Witness ==
    /\ pc = "raised"
    /\ err.msg = UnknownFormatMsg
    /\ err.arg = <<"weird">>
    /\ idx = 3
    /\ files.written = {manpages_data[1].key, manpages_data[2].key}

AfterFinalize == pc = "finalized" \/ (pc = "raised" /\ log = <<>>)

\* The value pyproject.toml holds at tool.build_manpages.manpages, as text.
ProjectHasValue ==
    /\ pyproject.kind = "toml"
    /\ pyproject.content.t = "table"
    /\ "tool" \in DOMAIN pyproject.content.v
    /\ pyproject.content.v["tool"].t = "table"
    /\ DEFAULT_CMD_NAME \in DOMAIN pyproject.content.v["tool"].v
    /\ pyproject.content.v["tool"].v[DEFAULT_CMD_NAME].t = "table"
    /\ "manpages" \in
          DOMAIN pyproject.content.v["tool"].v[DEFAULT_CMD_NAME].v

ProjectValue == pyproject.content.v["tool"].v[DEFAULT_CMD_NAME].v["manpages"]

ProjectText ==
    IF ~ProjectHasValue THEN <<>>
    ELSE IF ProjectValue.t = "list" THEN join(ProjectValue.v)
    ELSE ProjectValue.v

\* finalize_options parsed the text s and nothing else.
Used(s) ==
    /\ string = s
    /\ LET r == parse_manpages_spec(s) IN
         IF r.exc = "none"
         THEN pc = "finalized"
              /\ manpages_data = CompleteAll(distribution, r.value)
         ELSE pc = "raised" /\ err = ErrOf(r)

\* C3: a non-empty override is used even when pyproject.toml defines a
\* spec; an empty or absent override falls back to the value of
\* pyproject.toml; when neither yields a non-empty value (key path absent,
\* document unparsable, no pyproject.toml at all) finalize_options fails
\* with the configuration-missing error and parses nothing.
C3_Claim ==
    AfterFinalize =>
        IF Truthy(manpages) THEN Used(manpages.v)
        ELSE IF ProjectText # <<>> THEN Used(ProjectText)
        ELSE /\ pc = "raised"
             /\ err = [exc |-> "DistutilsOptionError", msg |-> RequiredMsg,
                       arg |-> NoArg]
             /\ string = <<>>
             /\ manpages_data = <<>>

----------------------------------------------------------------------------
(* _build_manpages_install.install_manual_pages *)

NotFoundMsg == "'manpage' configuration not found in setup.cfg or pyproject.toml"

\* config.read('setup.cfg'): a missing file is skipped and leaves the
\* configuration without sections.
ConfigRead(file) ==
    IF file.kind = "missing" THEN Table(EmptyDict) ELSE file.content

\* ConfigParser.get(section, option)
ConfigGet(config, section, option) ==
    IF section \notin DOMAIN config.v
    THEN Raise("NoSectionError", "", <<section>>)
    ELSE IF option \notin DOMAIN config.v[section].v
    THEN Raise("NoOptionError", "", <<option>>)
    ELSE Return(PyStr(config.v[section].v[option].v))

\* try: spec = config.get(...)  except NoSectionError: spec = get_pyproject_settings()
InstallSpec(cfg, file) ==
    LET r == ConfigGet(ConfigRead(cfg), DEFAULT_CMD_NAME, "manpages") IN
    IF r.exc = "NoSectionError" THEN get_pyproject_settings(file) ELSE r

\* Up to the loop: the spec is resolved and parsed, mandir is made.
InstallResolve ==
    /\ pc = "new"
    /\ LET m == InstallSpec(setup_cfg, pyproject) IN
         IF m.exc # "none"
         THEN /\ err' = ErrOf(m)
              /\ pc' = "raised"
              /\ UNCHANGED <<string, manpages_data, idx, log, files>>
         ELSE IF m.value = PyNone
         THEN /\ err' = [exc |-> "ValueError", msg |-> NotFoundMsg,
                         arg |-> NoArg]
              /\ pc' = "raised"
              /\ UNCHANGED <<string, manpages_data, idx, log, files>>
         ELSE LET r == parse_manpages_spec(m.value.v) IN
              /\ string' = m.value.v
              /\ IF r.exc # "none"
                 THEN /\ err' = ErrOf(r)
                      /\ pc' = "raised"
                      /\ UNCHANGED <<manpages_data, idx, log, files>>
                 ELSE /\ manpages_data' = r.value
                      /\ idx' = 1
                      /\ pc' = "copying"
                      /\ IF files.mandir
                         THEN UNCHANGED <<log, files>>
                         ELSE /\ files' = [files EXCEPT !.mandir = TRUE]
                              /\ log' = Append(log,
                                           Call("os.makedirs", <<>>, <<>>))
                      /\ UNCHANGED err
    /\ UNCHANGED <<decl, manpages, pyproject, setup_cfg, distribution>>

\* print('installing ...'); shutil.copy(key, mandir)
InstallCopy ==
    /\ pc = "copying"
    /\ idx <= Len(manpages_data)
    /\ Page \in files.written
    /\ log' = log \o <<Call("print", Page, <<"installing">>),
                       Call("shutil.copy", Page, <<"returned">>)>>
    /\ files' = [files EXCEPT !.copied = @ \cup {Page}]
    /\ idx' = idx + 1
    /\ UNCHANGED <<decl, string, manpages, pyproject, setup_cfg,
                   distribution, manpages_data, err, pc>>

\* shutil.copy of a page that was not built raises
InstallCopyFails ==
    /\ pc = "copying"
    /\ idx <= Len(manpages_data)
    /\ Page \notin files.written
    /\ log' = log \o <<Call("print", Page, <<"installing">>),
                       Call("shutil.copy", Page, <<"raised">>)>>
    /\ err' = [exc |-> "FileNotFoundError", msg |-> "", arg |-> Page]
    /\ pc' = "raised"
    /\ UNCHANGED <<decl, string, manpages, pyproject, setup_cfg,
                   distribution, manpages_data, idx, files>>

InstallEnd ==
    /\ pc = "copying"
    /\ idx > Len(manpages_data)
    /\ pc' = "done"
    /\ UNCHANGED <<decl, string, manpages, pyproject, setup_cfg,
                   distribution, manpages_data, idx, log, files, err>>

----------------------------------------------------------------------------
(* Specification SpecInstall: install_manual_pages over the two files *)

LegacyLines ==
    << <<"l.1">> \o JoinOptions(Importing),
       <<"x.1">> \o JoinOptions(Importing) >>

CfgFile(content) == [kind |-> "cfg", content |-> content]

\* setup.cfg: missing, without the section, with the section but not the
\* option, or with the option.
LegacyFiles ==
    << NoFile,
       CfgFile(Table(EmptyDict)),
       CfgFile(Table([build_manpages |-> Table(EmptyDict)])),
       CfgFile(Table([build_manpages |->
                        Table([manpages |-> TomlStr(LegacyLines[1])])])),
       CfgFile(Table([build_manpages |->
                        Table([manpages |->
                                 TomlStr(<<NL>> \o join(LegacyLines))])])) >>

BuiltPages == {<<"l.1">>, <<"x.1">>, <<"y.1">>}

InitInstall ==
    /\ \E i \in DOMAIN LegacyFiles : setup_cfg = LegacyFiles[i]
    /\ \E i \in DOMAIN ProjectFiles : pyproject = ProjectFiles[i]
    /\ \E w \in SUBSET BuiltPages, d \in BOOLEAN :
          files = [written |-> w, mandir |-> d, copied |-> {}]
    /\ decl = <<>>
    /\ manpages = PyNone
    /\ distribution = EmptyDict
    /\ string = <<>>
    /\ manpages_data = <<>>
    /\ idx = 0
    /\ log = <<>>
    /\ err = NoErr
    /\ pc = "new"

NextInstall ==
    \/ InstallResolve
    \/ InstallCopy
    \/ InstallCopyFails
    \/ InstallEnd

SpecInstall == InitInstall /\ [][NextInstall]_vars

----------------------------------------------------------------------------
(* Claims about install_manual_pages, checked under SpecInstall *)

AfterInstallResolve ==
    (pc = "copying" /\ idx = 1) \/ (pc = "raised" /\ idx = 0)

\* setup.cfg holds a value at build_manpages/manpages.
LegacyHasValue ==
    /\ setup_cfg.kind = "cfg"
    /\ DEFAULT_CMD_NAME \in DOMAIN setup_cfg.content.v
    /\ "manpages" \in DOMAIN setup_cfg.content.v[DEFAULT_CMD_NAME].v

LegacyText == setup_cfg.content.v[DEFAULT_CMD_NAME].v["manpages"].v

\* install_manual_pages parsed the text s and went on from its records.
InstallUsed(s) ==
    /\ string = s
    /\ LET r == parse_manpages_spec(s) IN
         IF r.exc = "none"
         THEN pc = "copying" /\ manpages_data = r.value
         ELSE pc = "raised" /\ err = ErrOf(r)

\* C10: install-time resolution uses the value of setup.cfg whenever that
\* file supplies one, the value of pyproject.toml whenever setup.cfg does
\* not, and fails with the not-found error, before mandir is made or any
\* file copied, when neither supplies a specification.
C10_Claim ==
    AfterInstallResolve =>
        IF LegacyHasValue THEN InstallUsed(LegacyText)
        ELSE IF ProjectHasValue THEN InstallUsed(ProjectText)
        ELSE /\ pc = "raised"
             /\ err = [exc |-> "ValueError", msg |-> NotFoundMsg,
                       arg |-> NoArg]
             /\ log = <<>>
             /\ files.copied = {}

====
